---- MODULE Spec2Model ----
(***************************************************************************)
(* Argus (Uninett/aas): the serializers of the notification-profile app    *)
(* and the views of the incident app, as state machines over the database  *)
(* tables they read and write.                                             *)
(*                                                                         *)
(*   SpecValidate    TimeIntervalSerializer.validate on its own            *)
(*   SpecTimeslot    timeslot writes, one request handled at a time        *)
(*   SpecProfile     SpecTimeslot with notification-profile writes         *)
(*   SpecIncident    source-system and incident views, one request at a    *)
(*                   time                                                  *)
(*   SpecConcurrent  timeslot writes of two request threads, interleaved   *)
(*                   statement by statement (the database autocommits)     *)
(***************************************************************************)
EXTENDS Integers, Sequences, FiniteSets, Bags, TLC

VARIABLES
    timeslots,      \* Timeslot rows: [pk, user, name]
    intervals,      \* TimeInterval rows, as a bag of [timeslot, day, start, end]
    profiles,       \* NotificationProfile rows, by their pk (= the timeslot's pk)
    users,          \* User rows, by username
    sourceSystems,  \* SourceSystem rows: [pk, user]
    incidents,      \* Incident rows: [pk, source, stateful, active]
    dispatched,     \* incidents handed to background_send_notifications_to_users
    response,       \* the last request and what it returned or raised
    requests,       \* SpecConcurrent: each request thread's position
    started,        \* SpecConcurrent: requests begun so far
    committed       \* SpecConcurrent: <<pk, posted bag>> of every finished write

vars == <<timeslots, intervals, profiles, users, sourceSystems, incidents,
          dispatched, response, requests, started, committed>>

profileVars == <<timeslots, intervals, profiles>>
incidentVars == <<users, sourceSystems, incidents, dispatched>>
concVars == <<requests, started, committed>>

----------------------------------------------------------------------------
(* Bounds of the model *)

MaxTime == 3
MaxTimeslots == 2
MaxIntervals == 1
MaxSourceSystems == 2
MaxIncidents == 2
MaxLegacyBatch == 2
MaxRequests == 3

Days == {"MO", "TU", "WE", "TH", "FR", "SA", "SU"}
Times == 0 .. MaxTime
TimeIntervalAttrs == [day : Days, start : Times, end : Times]

----------------------------------------------------------------------------
(* Responses *)

NoResponse == [op |-> "none"]

Ok == [kind |-> "ok", msg |-> ""]
ValidationError(msg) == [kind |-> "ValidationError", msg |-> msg]
IntegrityError == [kind |-> "IntegrityError", msg |-> ""]
KeyError == [kind |-> "KeyError", msg |-> "username"]
Http404 == [kind |-> "Http404", msg |-> ""]

StartBeforeEndMsg == "Start time must be before end time."
TimeslotExistsMsg == "Timeslot with the name already exists for the user."
ProfileExistsMsg == "NotificationProfile with Timeslot already exists."
SuperuserMsg == "You must be a superuser to be allowed to specify the 'source' field."
SourceMissingMsg == "SourceSystem with pk does not exist."
NoSourceSystemMsg == "The requesting user must have a connected source system."
IntegrityMsg == "IntegrityError"
GuardMsg == "state transition not allowed"
FormErrorsMsg == "form.errors"

----------------------------------------------------------------------------
(* TimeIntervalSerializer *)

validate_strict_only(attrs) ==
    IF attrs.start > attrs.end
    THEN [ok |-> FALSE, error |-> ValidationError(StartBeforeEndMsg), value |-> attrs]
    ELSE [ok |-> TRUE, error |-> Ok, value |-> attrs]

validate(attrs) ==
    IF attrs.start >= attrs.end
    THEN [ok |-> FALSE, error |-> ValidationError(StartBeforeEndMsg), value |-> attrs]
    ELSE [ok |-> TRUE, error |-> Ok, value |-> attrs]

ValidateTimeInterval(attrs) ==
    /\ response' = [op |-> "validate", attrs |-> attrs, result |-> validate(attrs)]
    /\ UNCHANGED <<profileVars, incidentVars, concVars>>

----------------------------------------------------------------------------
(* Timeslot and TimeInterval tables *)

TimeslotUsers == {"u1", "u2"}
TimeslotNames == {"work", "home"}

\* The time intervals requests post: two well-ordered ones and an empty one.
SampleIntervals ==
    { [day |-> "MO", start |-> 0, end |-> 1],
      [day |-> "TU", start |-> 0, end |-> 1],
      [day |-> "MO", start |-> 1, end |-> 1] }

\* TimeslotSerializer.time_intervals: every posted interval passes through
\* TimeIntervalSerializer.validate before create() or update() is called.
is_valid(posted) == \A i \in 1 .. Len(posted) : validate(posted[i]).ok

\* validated_data["time_intervals"], as create() and update() receive it
ValidatedLists ==
    { posted \in UNION { [1 .. n -> SampleIntervals] : n \in 0 .. MaxIntervals } :
        is_valid(posted) }

Pks(table) == { r.pk : r \in table }
Row(table, pk) == CHOOSE r \in table : r.pk = pk
NextPk(table) == Cardinality(table) + 1

\* The (name, user) uniqueness constraint of the Timeslot table.
UniqueViolation(ts, pk, user, name) ==
    \E t \in ts : t.pk # pk /\ t.user = user /\ t.name = name

IntervalRow(pk, attrs) ==
    [timeslot |-> pk, day |-> attrs.day, start |-> attrs.start, end |-> attrs.end]

\* TimeInterval.objects.create(timeslot=timeslot, **time_interval_data)
TimeInterval_objects_create(iv, pk, attrs) == iv (+) SetToBag({IntervalRow(pk, attrs)})

\* timeslot.time_intervals.all().delete()
time_intervals_delete(iv, pk) ==
    [r \in { x \in DOMAIN iv : x.timeslot # pk } |-> iv[r]]

RECURSIVE create_time_intervals(_, _, _)
create_time_intervals(iv, pk, posted) ==
    IF posted = <<>> THEN iv
    ELSE create_time_intervals(TimeInterval_objects_create(iv, pk, Head(posted)),
                               pk, Tail(posted))

\* The rows of one timeslot, and the rows a posted list stands for.
RowsOf(iv, pk) == [r \in { x \in DOMAIN iv : x.timeslot = pk } |-> iv[r]]
PostedRows(pk, posted) == create_time_intervals(EmptyBag, pk, posted)

create_reraises(ts, name) == IntegrityError

\* TimeslotSerializer.create, the except branch
create_on_integrity_error(ts, name) ==
    IF \E t \in ts : t.name = name
    THEN ValidationError(TimeslotExistsMsg)
    ELSE IntegrityError

update_keeps_old_intervals(iv, pk, posted) == create_time_intervals(iv, pk, posted)

\* TimeslotSerializer.update, the replacement of the time intervals
update_time_intervals(iv, pk, posted) ==
    create_time_intervals(time_intervals_delete(iv, pk), pk, posted)

TimeslotResponse(op, pk, user, name, posted, result) ==
    [op |-> op, pk |-> pk, user |-> user, name |-> name, posted |-> posted,
     result |-> result]

TimeslotSerializer_create(user, name, posted) ==
    /\ IF UniqueViolation(timeslots, 0, user, name)
       THEN \* Timeslot.objects.create raises IntegrityError
            /\ response' = TimeslotResponse("timeslot_create", 0, user, name, posted,
                                            create_on_integrity_error(timeslots, name))
            /\ UNCHANGED <<timeslots, intervals>>
       ELSE /\ Cardinality(timeslots) < MaxTimeslots
            /\ LET pk == NextPk(timeslots) IN
                 /\ timeslots' = timeslots \cup {[pk |-> pk, user |-> user, name |-> name]}
                 /\ intervals' = create_time_intervals(intervals, pk, posted)
                 /\ response' = TimeslotResponse("timeslot_create", pk, user, name,
                                                 posted, Ok)
    /\ UNCHANGED <<profiles, incidentVars, concVars>>

TimeslotSerializer_update(pk, name, posted) ==
    /\ pk \in Pks(timeslots)
    /\ LET timeslot == Row(timeslots, pk) IN
       IF UniqueViolation(timeslots, pk, timeslot.user, name)
       THEN \* timeslot.save() raises; nothing in update() catches it
            /\ response' = TimeslotResponse("timeslot_update", pk, timeslot.user, name,
                                            posted, IntegrityError)
            /\ UNCHANGED <<timeslots, intervals>>
       ELSE /\ timeslots' = (timeslots \ {timeslot})
                               \cup {[timeslot EXCEPT !.name = name]}
            /\ intervals' = update_time_intervals(intervals, pk, posted)
            /\ response' = TimeslotResponse("timeslot_update", pk, timeslot.user, name,
                                            posted, Ok)
    /\ UNCHANGED <<profiles, incidentVars, concVars>>

\* NotificationProfileSerializer.create, the except branch
profile_on_integrity_error(ps, timeslot_pk) ==
    IF timeslot_pk \in ps
    THEN ValidationError(ProfileExistsMsg)
    ELSE IntegrityError

NotificationProfileSerializer_create(timeslot_pk) ==
    /\ timeslot_pk \in Pks(timeslots)
    /\ IF timeslot_pk \in profiles
       THEN /\ response' = TimeslotResponse("profile_create", timeslot_pk, "", "", <<>>,
                               profile_on_integrity_error(profiles, timeslot_pk))
            /\ UNCHANGED profiles
       ELSE /\ profiles' = profiles \cup {timeslot_pk}
            /\ response' = TimeslotResponse("profile_create", timeslot_pk, "", "", <<>>, Ok)
    /\ UNCHANGED <<timeslots, intervals, incidentVars, concVars>>

----------------------------------------------------------------------------
(* Source systems *)

Superusers == {"admin"}
PostedUsernames == {"nav"}
\* secrets.token_hex(3).upper(): any of 16.8 million values
Suffixes == {"A", "B"}

\* request.data of a source-system POST: the username key may be absent;
\* otherOk says whether every other field of the form validates.
SourceSystemPosts ==
    { d \in [hasUsername : BOOLEAN, username : PostedUsernames \cup {""},
             otherOk : BOOLEAN] :
        /\ d.hasUsername <=> d.username # ""
        /\ ~d.hasUsername => ~d.otherOk }

\* AddSourceSystemForm.is_valid(): the username must not be taken.
form_is_valid(data, us) ==
    /\ data.otherOk
    /\ data.hasUsername => data.username \notin us

\* SourceSystemList._set_available_username, the renaming
set_available_username(data, random_suffix) ==
    [data EXCEPT !.username = data.username \o "_" \o random_suffix]

SourceResponse(data, username, pk, result) ==
    [op |-> "source_create", data |-> data, username |-> username, pk |-> pk,
     result |-> result]

\* form.save(): the source system and its system user
form_save(posted, data) ==
    /\ Cardinality(sourceSystems) < MaxSourceSystems
    /\ LET pk == NextPk(sourceSystems) IN
         /\ users' = users \cup {data.username}
         /\ sourceSystems' = sourceSystems \cup {[pk |-> pk, user |-> data.username]}
         /\ response' = SourceResponse(posted, data.username, pk, Ok)

SourceSystemList_create(data, random_suffix) ==
    /\ IF form_is_valid(data, users)
       THEN form_save(data, data)
       ELSE IF ~data.hasUsername
       THEN \* form.data["username"] on a dict without the key
            /\ response' = SourceResponse(data, "", 0, KeyError)
            /\ UNCHANGED <<users, sourceSystems>>
       ELSE IF data.username \in users
       THEN LET renamed == set_available_username(data, random_suffix) IN
            IF form_is_valid(renamed, users)
            THEN form_save(data, renamed)
            ELSE /\ response' = SourceResponse(data, renamed.username, 0,
                                               ValidationError(FormErrorsMsg))
                 /\ UNCHANGED <<users, sourceSystems>>
       ELSE /\ response' = SourceResponse(data, data.username, 0,
                                          ValidationError(FormErrorsMsg))
            /\ UNCHANGED <<users, sourceSystems>>
    /\ UNCHANGED <<profileVars, incidents, dispatched, concVars>>

----------------------------------------------------------------------------
(* Incidents *)

\* serializer.initial_data: 'source' may be absent (source = 0 then); the pks
\* posted include one that no source system has.
IncidentPosts ==
    { d \in [hasSource : BOOLEAN, source : 0 .. MaxSourceSystems + 1,
             stateful : BOOLEAN] : d.hasSource <=> d.source # 0 }

SourceOk(pk) == [ok |-> TRUE, source |-> pk, error |-> Ok]
SourceError(msg) == [ok |-> FALSE, source |-> 0, error |-> ValidationError(msg)]

\* user.source_system
source_system_of(user, ss) ==
    IF \E r \in ss : r.user = user
    THEN SourceOk((CHOOSE r \in ss : r.user = user).pk)
    ELSE SourceError(NoSourceSystemMsg)

resolve_source_anyone(user, data, ss) ==
    IF data.hasSource
    THEN IF data.source \in Pks(ss)
         THEN SourceOk(data.source)
         ELSE SourceError(SourceMissingMsg)
    ELSE source_system_of(user, ss)

resolve_source_unchecked(user, data, ss) ==
    IF data.hasSource
    THEN IF user \notin Superusers
         THEN SourceError(SuperuserMsg)
         ELSE SourceOk(data.source)
    ELSE IF \E r \in ss : r.user = user
         THEN source_system_of(user, ss)
         ELSE SourceOk(0)

\* IncidentViewSet.perform_create, the choice of the source system
resolve_source(user, data, ss) ==
    IF data.hasSource
    THEN IF user \notin Superusers
         THEN SourceError(SuperuserMsg)
         ELSE IF data.source \in Pks(ss)
              THEN SourceOk(data.source)
              ELSE SourceError(SourceMissingMsg)
    ELSE source_system_of(user, ss)

IncidentResponse(user, data, pk, result) ==
    [op |-> "incident_create", user |-> user, data |-> data, pk |-> pk,
     result |-> result]

IncidentViewSet_perform_create(user, data) ==
    /\ user \in users
    /\ LET resolved == resolve_source(user, data, sourceSystems) IN
       IF ~resolved.ok
       THEN /\ response' = IncidentResponse(user, data, 0, resolved.error)
            /\ UNCHANGED incidents
       ELSE \* serializer.save(): the database accepts the row or raises
            \* IntegrityError
            \/ /\ response' = IncidentResponse(user, data, 0,
                                               ValidationError(IntegrityMsg))
               /\ UNCHANGED incidents
            \/ /\ Cardinality(incidents) < MaxIncidents
               /\ LET pk == NextPk(incidents) IN
                    /\ incidents' = incidents \cup
                          {[pk |-> pk, source |-> resolved.source,
                            stateful |-> data.stateful, active |-> data.stateful]}
                    /\ response' = IncidentResponse(user, data, pk, Ok)
    \* "TODO: send notifications to users": nothing is dispatched here
    /\ UNCHANGED <<profileVars, users, sourceSystems, dispatched, concVars>>

\* The source-system type the legacy endpoint passes to the mapping
LegacySourceType == "nav"

\* mappings.create_incident_from_json(json_dict, "nav"), for each of the n
\* dictionaries of request.data: an incident of the "nav" source system
RECURSIVE create_incidents_from_json(_, _, _)
create_incidents_from_json(table, n, source) ==
    IF n = 0 THEN table
    ELSE create_incidents_from_json(
             table \cup {[pk |-> NextPk(table), source |-> source,
                          stateful |-> TRUE, active |-> TRUE]},
             n - 1, source)

IncidentCreate_legacy_post(n) ==
    /\ Cardinality(incidents) + n <= MaxIncidents
    /\ \E r \in sourceSystems : r.user = LegacySourceType
    /\ LET source == (CHOOSE r \in sourceSystems : r.user = LegacySourceType).pk IN
         incidents' = create_incidents_from_json(incidents, n, source)
    /\ LET created_incidents == Pks(incidents') \ Pks(incidents) IN
         /\ dispatched' = dispatched \cup created_incidents
         /\ response' = [op |-> "legacy_create", pks |-> created_incidents,
                         result |-> Ok]
    /\ UNCHANGED <<profileVars, users, sourceSystems, concVars>>

\* Incident.set_active / set_inactive raise ValidationError for an incident
\* that keeps no state.
guard_raises(incident, target) == ~incident.stateful

set_state_unhandled(raised) ==
    IF raised
    THEN [kind |-> "django.ValidationError", msg |-> GuardMsg]
    ELSE Ok

\* IncidentViewSet._set_state_action, the try/except around set_state
set_state_result(raised) ==
    IF raised THEN ValidationError(GuardMsg) ELSE Ok

StateResponse(op, pk, result, data) ==
    [op |-> op, pk |-> pk, result |-> result, data |-> data]

set_state_action(pk, target) ==
    /\ IF pk \notin Pks(incidents)
       THEN \* get_object()
            /\ response' = StateResponse(target, pk, Http404, {})
            /\ UNCHANGED incidents
       ELSE LET incident == Row(incidents, pk)
                raised == guard_raises(incident, target)
            IN IF raised
               THEN /\ response' = StateResponse(target, pk, set_state_result(raised), {})
                    /\ UNCHANGED incidents
               ELSE LET updated == [incident EXCEPT !.active = (target = "active")] IN
                    /\ incidents' = (incidents \ {incident}) \cup {updated}
                    /\ response' = StateResponse(target, pk, set_state_result(raised),
                                                 {updated})
    /\ UNCHANGED <<profileVars, users, sourceSystems, dispatched, concVars>>

IncidentViewSet_active(pk) == set_state_action(pk, "active")

IncidentViewSet_inactive(pk) == set_state_action(pk, "inactive")

----------------------------------------------------------------------------
(* Timeslot writes of concurrent requests.  DATABASES sets neither            *)
(* ATOMIC_REQUESTS nor is any write wrapped in transaction.atomic(), so each  *)
(* ORM statement commits on its own and requests interleave between them.     *)

Threads == {1, 2}
Idle == [pc |-> "idle"]
AllIdle == \A t \in Threads : requests[t] = Idle

Running(pc, op, pk, user, name, posted) ==
    [pc |-> pc, op |-> op, pk |-> pk, user |-> user, name |-> name,
     posted |-> posted, i |-> 1]

Finish(t, result) ==
    LET r == requests[t] IN
    /\ response' = [op |-> r.op, pk |-> r.pk, result |-> result]
    /\ requests' = [requests EXCEPT ![t] = Idle]

\* create(): Timeslot.objects.create(**validated_data)
CreateTimeslotRow(t, user, name, posted) ==
    /\ requests[t] = Idle
    /\ started < MaxRequests
    /\ started' = started + 1
    /\ IF UniqueViolation(timeslots, 0, user, name)
       THEN /\ requests' = [requests EXCEPT ![t] =
                   Running("integrity_error", "timeslot_create", 0, user, name, posted)]
            /\ UNCHANGED timeslots
       ELSE /\ Cardinality(timeslots) < MaxTimeslots
            /\ LET pk == NextPk(timeslots) IN
                 /\ timeslots' = timeslots \cup {[pk |-> pk, user |-> user, name |-> name]}
                 /\ requests' = [requests EXCEPT ![t] =
                       Running("intervals", "timeslot_create", pk, user, name, posted)]
    /\ UNCHANGED <<intervals, profiles, incidentVars, response, committed>>

\* create(): Timeslot.objects.filter(name=name).exists(), then the raise
CreateHandleIntegrityError(t) ==
    /\ requests[t].pc = "integrity_error"
    /\ Finish(t, create_on_integrity_error(timeslots, requests[t].name))
    /\ UNCHANGED <<profileVars, incidentVars, started, committed>>

\* update(): timeslot.name = validated_data["name"]; timeslot.save()
UpdateSaveName(t, pk, name, posted) ==
    /\ requests[t] = Idle
    /\ started < MaxRequests
    /\ pk \in Pks(timeslots)
    \* the client learns a timeslot's pk from the response of its create
    /\ \A u \in Threads : requests[u] # Idle =>
          (requests[u].op # "timeslot_create" \/ requests[u].pk # pk)
    /\ started' = started + 1
    /\ LET timeslot == Row(timeslots, pk) IN
       IF UniqueViolation(timeslots, pk, timeslot.user, name)
       THEN /\ response' = [op |-> "timeslot_update", pk |-> pk,
                            result |-> IntegrityError]
            /\ UNCHANGED <<timeslots, requests>>
       ELSE /\ timeslots' = (timeslots \ {timeslot})
                               \cup {[timeslot EXCEPT !.name = name]}
            /\ requests' = [requests EXCEPT ![t] =
                  Running("delete", "timeslot_update", pk, timeslot.user, name, posted)]
            /\ UNCHANGED response
    /\ UNCHANGED <<intervals, profiles, incidentVars, committed>>

\* update(): timeslot.time_intervals.all().delete()
UpdateDeleteIntervals(t) ==
    /\ requests[t].pc = "delete"
    /\ intervals' = time_intervals_delete(intervals, requests[t].pk)
    /\ requests' = [requests EXCEPT ![t].pc = "intervals"]
    /\ UNCHANGED <<timeslots, profiles, incidentVars, response, started, committed>>

\* create() and update(): one TimeInterval.objects.create of the for loop
CreateNextInterval(t) ==
    /\ requests[t].pc = "intervals"
    /\ requests[t].i <= Len(requests[t].posted)
    /\ intervals' = TimeInterval_objects_create(intervals, requests[t].pk,
                                                requests[t].posted[requests[t].i])
    /\ requests' = [requests EXCEPT ![t].i = @ + 1]
    /\ UNCHANGED <<timeslots, profiles, incidentVars, response, started, committed>>

\* create() and update(): return timeslot
ReturnTimeslot(t) ==
    /\ requests[t].pc = "intervals"
    /\ requests[t].i > Len(requests[t].posted)
    /\ committed' = committed \cup
          {<<requests[t].pk, PostedRows(requests[t].pk, requests[t].posted)>>}
    /\ Finish(t, Ok)
    /\ UNCHANGED <<profileVars, incidentVars, started>>

----------------------------------------------------------------------------
Init ==
    /\ timeslots = {}
    /\ intervals = EmptyBag
    /\ profiles = {}
    /\ users = {"admin"}
    /\ sourceSystems = {}
    /\ incidents = {}
    /\ dispatched = {}
    /\ response = NoResponse
    /\ requests = [t \in Threads |-> Idle]
    /\ started = 0
    /\ committed = {}

NextValidate == \E attrs \in TimeIntervalAttrs : ValidateTimeInterval(attrs)

SpecValidate == Init /\ [][NextValidate]_vars

NextTimeslot ==
    \/ \E user \in TimeslotUsers, name \in TimeslotNames, posted \in ValidatedLists :
          TimeslotSerializer_create(user, name, posted)
    \/ \E pk \in 1 .. MaxTimeslots, name \in TimeslotNames, posted \in ValidatedLists :
          TimeslotSerializer_update(pk, name, posted)

SpecTimeslot == Init /\ [][NextTimeslot]_vars

NextProfile ==
    \/ NextTimeslot
    \/ \E pk \in 1 .. MaxTimeslots : NotificationProfileSerializer_create(pk)

SpecProfile == Init /\ [][NextProfile]_vars

NextIncident ==
    \/ \E data \in SourceSystemPosts, suffix \in Suffixes :
          SourceSystemList_create(data, suffix)
    \/ \E user \in users, data \in IncidentPosts :
          IncidentViewSet_perform_create(user, data)
    \/ \E n \in 1 .. MaxLegacyBatch : IncidentCreate_legacy_post(n)
    \/ \E pk \in 1 .. MaxIncidents + 1 : IncidentViewSet_active(pk)
    \/ \E pk \in 1 .. MaxIncidents + 1 : IncidentViewSet_inactive(pk)

SpecIncident == Init /\ [][NextIncident]_vars

NextConcurrent ==
    \/ \E t \in Threads, user \in TimeslotUsers, name \in TimeslotNames,
          posted \in ValidatedLists : CreateTimeslotRow(t, user, name, posted)
    \/ \E t \in Threads : CreateHandleIntegrityError(t)
    \/ \E t \in Threads, pk \in 1 .. MaxTimeslots, name \in TimeslotNames,
          posted \in ValidatedLists : UpdateSaveName(t, pk, name, posted)
    \/ \E t \in Threads : UpdateDeleteIntervals(t)
    \/ \E t \in Threads : CreateNextInterval(t)
    \/ \E t \in Threads : ReturnTimeslot(t)

SpecConcurrent == Init /\ [][NextConcurrent]_vars

----------------------------------------------------------------------------
\* C1: validate rejects, with 'Start time must be before end time.', every
\* interval whose start is not strictly before its end (start > end and
\* start = end alike), and accepts every interval with start < end, returning
\* the attributes unchanged.
ValidateRejectsUnordered ==
    response.op = "validate" =>
        /\ response.attrs.start >= response.attrs.end =>
              /\ ~response.result.ok
              /\ response.result.error = ValidationError(StartBeforeEndMsg)
        /\ response.attrs.start < response.attrs.end =>
              /\ response.result.ok
              /\ response.result.value = response.attrs

ValidateEqualRejected ==
    /\ response.op = "validate"
    /\ response.attrs.start = response.attrs.end
    /\ ~response.result.ok

----------------------------------------------------------------------------
\* No user owns two timeslots of one name.
TimeslotNameUnique ==
    \A a, b \in timeslots : (a.user = b.user /\ a.name = b.name) => a = b

\* A create step whose (user, name) is already stored is refused and writes
\* nothing.
DuplicateCreateRejected ==
    (/\ response'.op = "timeslot_create"
     /\ UniqueViolation(timeslots, 0, response'.user, response'.name))
    => /\ response'.result = ValidationError(TimeslotExistsMsg)
       /\ UNCHANGED <<timeslots, intervals>>

\* C2: a timeslot name is unique per user: no user ever owns two timeslots
\* with the same name, and a create request whose name the same user already
\* uses is rejected with the validation error 'Timeslot with the name ...
\* already exists for the user ...' and creates no timeslot or time interval.
TimeslotNameUniquePerUser ==
    []TimeslotNameUnique /\ [][DuplicateCreateRejected]_vars

\* A duplicate was rejected, while another user holds a timeslot of that name.
DuplicateCreateRejectedSeen ==
    /\ response.op = "timeslot_create"
    /\ response.result = ValidationError(TimeslotExistsMsg)
    /\ \E t \in timeslots : t.user = response.user /\ t.name = response.name
    /\ \E t \in timeslots : t.user # response.user /\ t.name = response.name

\* C3: an IntegrityError raised while persisting is never propagated to the
\* caller by a write operation (timeslot create, timeslot update, notification
\* profile create, incident create); it always surfaces as a validation error.
IntegrityErrorNeverPropagates ==
    response.op \in {"timeslot_create", "timeslot_update", "profile_create",
                     "incident_create"}
    => response.result.kind # "IntegrityError"

UpdateStoresPosted ==
    (response.op = "timeslot_update" /\ response.result = Ok)
    => /\ Row(timeslots, response.pk).name = response.name
       /\ RowsOf(intervals, response.pk) = PostedRows(response.pk, response.posted)

UpdateLeavesOthers ==
    (response'.op = "timeslot_update" /\ response'.result = Ok)
    => \A q \in Pks(timeslots) \ {response'.pk} :
          /\ RowsOf(intervals', q) = RowsOf(intervals, q)
          /\ Row(timeslots', q) = Row(timeslots, q)

\* C6: after a successful update the timeslot's name is the posted name and its
\* time intervals are exactly the posted list; the time intervals of every other
\* timeslot are unchanged.
UpdateRoundTrips == []UpdateStoresPosted /\ [][UpdateLeavesOthers]_vars

\* An update stored a one-interval list while another timeslot holds intervals
\* of its own.
UpdateReplacedSeen ==
    /\ response.op = "timeslot_update"
    /\ response.result = Ok
    /\ Len(response.posted) = 1
    /\ RowsOf(intervals, response.pk) = PostedRows(response.pk, response.posted)
    /\ \E q \in Pks(timeslots) \ {response.pk} : RowsOf(intervals, q) # EmptyBag

----------------------------------------------------------------------------
\* C4: every incident that is persisted, through IncidentViewSet create or the
\* legacy endpoint, has a notification dispatch once the request that created
\* it has been handled, and nothing is dispatched that was not persisted.
EveryIncidentDispatched ==
    /\ \A i \in incidents : i.pk \in dispatched
    /\ dispatched \subseteq Pks(incidents)

IncidentSourceExists ==
    /\ \A i \in incidents : i.source \in Pks(sourceSystems)
    /\ (response.op = "incident_create" /\ response.result = Ok) =>
          LET created == Row(incidents, response.pk) IN
          IF response.data.hasSource
          THEN response.user \in Superusers /\ created.source = response.data.source
          ELSE \E r \in sourceSystems :
                  r.user = response.user /\ r.pk = created.source

IncidentWithoutSourceRejected ==
    (/\ response'.op = "incident_create"
     /\ \/ ~response'.data.hasSource
           /\ ~\E r \in sourceSystems : r.user = response'.user
        \/ response'.data.hasSource
           /\ response'.data.source \notin Pks(sourceSystems))
    => /\ response'.result.kind = "ValidationError"
       /\ incidents' = incidents

\* C5: every stored incident has exactly one existing source system: the one
\* connected to the requesting user when no 'source' was posted, the posted one
\* when the requester is a superuser; a request without 'source' by a user
\* without a source system, or with a 'source' pk that does not exist, is
\* rejected with a validation error and creates no incident.
IncidentHasOneSource == []IncidentSourceExists /\ [][IncidentWithoutSourceRejected]_vars

\* A superuser posted the pk of the second source system, and it was stored.
IncidentSourcePostedSeen ==
    /\ response.op = "incident_create"
    /\ response.result = Ok
    /\ response.data.hasSource
    /\ response.data.source = 2
    /\ Row(incidents, response.pk).source = 2
    /\ \E i \in incidents : i.source = 1

SetStateAppliesOrRejects ==
    (response'.op \in {"active", "inactive"} /\ response'.pk \in Pks(incidents))
    => LET before == Row(incidents, response'.pk) IN
       IF guard_raises(before, response'.op)
       THEN /\ response'.result.kind = "ValidationError"
            /\ incidents' = incidents
       ELSE /\ response'.result = Ok
            /\ Row(incidents', response'.pk).active = (response'.op = "active")
            /\ response'.data = {Row(incidents', response'.pk)}
            /\ \A q \in Pks(incidents) \ {response'.pk} :
                  Row(incidents', q) = Row(incidents, q)

\* C7: a PUT to 'active' or 'inactive' of an incident either applies the
\* transition and returns the serialized incident, or, when the guard raises,
\* returns a validation error and leaves the stored incident as it was.
StateTransitionGuarded == [][SetStateAppliesOrRejects]_vars

\* Both outcomes: a transition was refused for a stateless incident while a
\* stateful one has been set inactive.
StateTransitionSeen ==
    /\ response.op = "inactive"
    /\ response.result.kind = "ValidationError"
    /\ \E i \in incidents : i.stateful /\ ~i.active

SourceBySuperuserOnly ==
    (/\ response'.op = "incident_create"
     /\ response'.data.hasSource
     /\ response'.user \notin Superusers)
    => /\ response'.result = ValidationError(SuperuserMsg)
       /\ incidents' = incidents

\* C8: a create request that posts 'source' and whose requester is not a
\* superuser is rejected with 'You must be a superuser to be allowed to specify
\* the 'source' field.' and creates no incident, whether or not the posted pk
\* exists or is the requester's own source system (the superuser check comes
\* before the source lookup).
OnlySuperuserSpecifiesSource == [][SourceBySuperuserOnly]_vars

\* A source-system user posted its own source system's pk and was refused.
OwnSourceRefusedSeen ==
    /\ response.op = "incident_create"
    /\ response.data.hasSource
    /\ \E r \in sourceSystems : r.user = response.user /\ r.pk = response.data.source
    /\ response.result = ValidationError(SuperuserMsg)

SourceCreateSavesOrRejects ==
    (response'.op = "source_create")
    => IF response'.result = Ok
       THEN /\ response'.username \notin users
            /\ users' = users \cup {response'.username}
            /\ \/ response'.username = response'.data.username
               \/ /\ response'.data.username \in users
                  /\ \E x \in Suffixes :
                        response'.username = response'.data.username \o "_" \o x
            /\ sourceSystems' = sourceSystems \cup
                  {[pk |-> response'.pk, user |-> response'.username]}
       ELSE /\ response'.result.kind = "ValidationError"
            /\ UNCHANGED <<users, sourceSystems>>

SourceUsersDistinct ==
    \A a, b \in sourceSystems : a.user = b.user => a = b

\* C9: a source-system create request either saves a source system whose
\* user's name is the posted username or, when that is taken, the posted
\* username with one random suffix, new at the time of saving; or it is rejected
\* with a validation error and creates no source system or user. No two source
\* systems share a user.
UsernameFallback == []SourceUsersDistinct /\ [][SourceCreateSavesOrRejects]_vars

----------------------------------------------------------------------------
\* C10: timeslot writes are all-or-nothing per request: once no request is in
\* progress, each timeslot's time intervals are the complete posted list of a
\* single successful request, never a mixture of two requests' lists and never
\* a partial list.
TimeslotWritesAllOrNothing ==
    AllIdle =>
        \A pk \in Pks(timeslots) :
            \E c \in committed : c[1] = pk /\ c[2] = RowsOf(intervals, pk)

====
